---- MODULE Spec2Model ----
(***************************************************************************)
(* Model of WikipediaDataExtractor                                         *)
(* (src/backend/wikipedia-data-ingestion/src/data_extraction.py).          *)
(*                                                                         *)
(* A Python str is a sequence of one-character strings.  A Python value is *)
(* a tagged record [t, v]: t = "str" (v the characters), t = "none"        *)
(* (None), t = "list" (v a sequence of strs) or t = "obj" (an object that  *)
(* is neither a str nor JSON-serializable, such as bytes or a set).  An    *)
(* article (Dict[str, Any]) is a function from the keys it has to values.  *)
(***************************************************************************)
EXTENDS Integers, Sequences, FiniteSets, TLC

\* ------------------------------------------------------------------ bounds
MaxTitleLen == 3
MaxTextLen == 2
SourceLen == 3
MaxEnvChanges == 1

\* ------------------------------------------------------------ python values
Str(s) == [t |-> "str", v |-> s]
None == [t |-> "none", v |-> <<>>]
List(l) == [t |-> "list", v |-> l]
Obj == [t |-> "obj", v |-> <<>>]

RECURSIVE SeqsUpTo(_, _)
\* every sequence over alphabet cs of length at most n
SeqsUpTo(cs, n) ==
    IF n = 0 THEN {<<>>}
    ELSE LET shorter == SeqsUpTo(cs, n - 1)
         IN  shorter \cup {Append(s, c) : s \in shorter, c \in cs}

\* dict.get(key, default)
Get(article, key, default) ==
    IF key \in DOMAIN article THEN article[key] ELSE default

\* ---------------------------------------------------------------- blob name
RECURSIVE Replace(_, _, _)
\* str.replace(old, new) for one-character old and new: every occurrence
Replace(s, old, new) ==
    IF s = <<>> THEN <<>>
    ELSE <<IF Head(s) = old THEN new ELSE Head(s)>> \o Replace(Tail(s), old, new)

Unknown == <<"u", "n", "k", "n", "o", "w", "n">>
Untitled == <<"u", "n", "t", "i", "t", "l", "e", "d">>
NoneText == <<"N", "o", "n", "e">>
DotJson == <<".", "j", "s", "o", "n">>

\* format(value) inside an f-string; an object prints as an opaque repr
Format(val) ==
    CASE val.t = "str" -> val.v
      [] val.t = "none" -> NoneText
      [] OTHER -> <<"<", "o", "b", "j", ">">>

\* article.get('title', 'untitled').replace(' ', '_') is defined for a str only
TitleIsStr(article) == Get(article, "title", Str(Untitled)).t = "str"

RECURSIVE ReplaceFirst(_, _, _)
\* str.replace(old, new, 1): the first occurrence only
ReplaceFirst(s, old, new) ==
    IF s = <<>> THEN <<>>
    ELSE IF Head(s) = old THEN <<new>> \o Tail(s)
    ELSE <<Head(s)>> \o ReplaceFirst(Tail(s), old, new)

\* faulty variant: the blob name with only the first space of the title replaced
BlobNameReplaceOnce(article) ==
    Format(Get(article, "id", Str(Unknown))) \o <<"-">>
        \o ReplaceFirst(Get(article, "title", Str(Untitled)).v, " ", "_") \o DotJson

\* f"{article.get('id', 'unknown')}-{article.get('title', 'untitled').replace(' ', '_')}.json"
BlobName(article) ==
    Format(Get(article, "id", Str(Unknown))) \o <<"-">>
        \o Replace(Get(article, "title", Str(Untitled)).v, " ", "_") \o DotJson

\* ------------------------------------------------------------ json.dumps
Keys == {"id", "url", "title", "text", "categories"}
\* the fields in the order the dataset's records hold them (dicts keep insertion order)
KeyOrder == <<"id", "url", "title", "text", "categories">>
KeyText ==
    [id |-> <<"i", "d">>, url |-> <<"u", "r", "l">>,
     title |-> <<"t", "i", "t", "l", "e">>, text |-> <<"t", "e", "x", "t">>,
     categories |-> <<"c", "a", "t", "e", "g", "o", "r", "i", "e", "s">>]

RECURSIVE Concat(_)
\* ''.join(parts)
Concat(parts) == IF parts = <<>> THEN <<>> ELSE Head(parts) \o Concat(Tail(parts))

RECURSIVE Join(_, _)
\* sep.join(parts)
Join(sep, parts) ==
    IF parts = <<>> THEN <<>>
    ELSE IF Len(parts) = 1 THEN Head(parts)
    ELSE Head(parts) \o sep \o Join(sep, Tail(parts))

\* the encoder's escape table with ensure_ascii=False: quote, backslash and
\* control characters are escaped, every other character is written as it is
EscapeChar(c) ==
    CASE c = "\"" -> <<"\\", "\"">>
      [] c = "\\" -> <<"\\", "\\">>
      [] c = "\n" -> <<"\\", "n">>
      [] OTHER -> <<c>>

DumpsStr(s) == <<"\"">> \o Concat([i \in 1..Len(s) |-> EscapeChar(s[i])]) \o <<"\"">>

DumpsValue(val) ==
    CASE val.t = "str" -> DumpsStr(val.v)
      [] val.t = "none" -> <<"n", "u", "l", "l">>
      [] val.t = "list" ->
            <<"[">> \o Join(<<",", " ">>, [i \in 1..Len(val.v) |-> DumpsStr(val.v[i])]) \o <<"]">>
      [] OTHER -> <<>>

\* json.dumps raises TypeError on a value it has no encoding for
Serializable(article) == \A k \in DOMAIN article : article[k].t # "obj"

\* json.dumps(article, ensure_ascii=False): '{"key": value, ...}'
Dumps(article) ==
    LET present == SelectSeq(KeyOrder, LAMBDA k : k \in DOMAIN article)
        item(k) == DumpsStr(KeyText[k]) \o <<":", " ">> \o DumpsValue(article[k])
    IN  <<"{">> \o Join(<<",", " ">>, [i \in 1..Len(present) |-> item(present[i])]) \o <<"}">>

\* ------------------------------------------------------------ json.loads
At(s, i) == IF i >= 1 /\ i <= Len(s) THEN s[i] ELSE "EOF"
Fail == [ok |-> FALSE, val |-> None, next |-> 0]
Parsed(val, next) == [ok |-> TRUE, val |-> val, next |-> next]

RECURSIVE SkipWs(_, _)
SkipWs(s, i) == IF At(s, i) \in {" ", "\n"} THEN SkipWs(s, i + 1) ELSE i

RECURSIVE ScanString(_, _, _)
\* the characters of a string literal whose opening quote is at i - 1
ScanString(s, i, acc) ==
    LET c == At(s, i)
        d == At(s, i + 1)
    IN  CASE c = "EOF" \/ c = "\n" -> Fail
          [] c = "\"" -> Parsed(Str(acc), i + 1)
          [] c = "\\" ->
                IF d = "\"" \/ d = "\\" THEN ScanString(s, i + 2, Append(acc, d))
                ELSE IF d = "n" THEN ScanString(s, i + 2, Append(acc, "\n"))
                ELSE Fail
          [] OTHER -> ScanString(s, i + 1, Append(acc, c))

RECURSIVE ParseArray(_, _, _)
\* the elements of an array from position i on; acc holds the ones read so far
ParseArray(s, i, acc) ==
    LET j == SkipWs(s, i)
        elem == ScanString(s, j + 1, <<>>)
        k == SkipWs(s, elem.next)
    IN  IF At(s, j) = "]" /\ acc = <<>> THEN Parsed(List(acc), j + 1)
        ELSE IF At(s, j) # "\"" THEN Fail
        ELSE IF ~elem.ok THEN Fail
        ELSE IF At(s, k) = "," THEN ParseArray(s, k + 1, Append(acc, elem.val.v))
        ELSE IF At(s, k) = "]" THEN Parsed(List(Append(acc, elem.val.v)), k + 1)
        ELSE Fail

ParseValue(s, i) ==
    LET c == At(s, i)
    IN  CASE c = "\"" -> ScanString(s, i + 1, <<>>)
          [] c = "[" -> ParseArray(s, i + 1, <<>>)
          [] c = "n" ->
                IF <<At(s, i + 1), At(s, i + 2), At(s, i + 3)>> = <<"u", "l", "l">>
                THEN Parsed(None, i + 4) ELSE Fail
          [] OTHER -> Fail

RECURSIVE ParseObject(_, _, _)
\* the members of an object from position i on; acc holds the <<key, value>> read so far
ParseObject(s, i, acc) ==
    LET j == SkipWs(s, i)
        key == ScanString(s, j + 1, <<>>)
        colon == SkipWs(s, key.next)
        val == ParseValue(s, SkipWs(s, colon + 1))
        k == SkipWs(s, val.next)
    IN  IF At(s, j) = "}" /\ acc = <<>> THEN Parsed(acc, j + 1)
        ELSE IF At(s, j) # "\"" THEN Fail
        ELSE IF ~key.ok THEN Fail
        ELSE IF At(s, colon) # ":" THEN Fail
        ELSE IF ~val.ok THEN Fail
        ELSE IF At(s, k) = "," THEN ParseObject(s, k + 1, Append(acc, <<key.val.v, val.val>>))
        ELSE IF At(s, k) = "}" THEN Parsed(Append(acc, <<key.val.v, val.val>>), k + 1)
        ELSE Fail

ParseError == [error |-> "JSONDecodeError"]

\* json.loads(text): the dict the text denotes (a repeated key keeps its last value),
\* or ParseError when the text is no JSON object over the article's fields
Loads(text) ==
    LET start == SkipWs(text, 1)
        obj == ParseObject(text, start + 1, <<>>)
        members == obj.val
        named(k) == {n \in 1..Len(members) : members[n][1] = KeyText[k]}
        last(k) == CHOOSE n \in named(k) : \A m \in named(k) : m <= n
    IN  IF At(text, start) # "{" THEN ParseError
        ELSE IF ~obj.ok THEN ParseError
        ELSE IF SkipWs(text, obj.next) # Len(text) + 1 THEN ParseError
        ELSE IF \E n \in 1..Len(members) : \A k \in Keys : members[n][1] # KeyText[k]
             THEN ParseError
        ELSE [k \in {x \in Keys : named(x) # {}} |-> members[last(k)][2]]

\* ------------------------------------------------------------ environment
WIKIPEDIA_DATASET_NAME == "WIKIPEDIA_DATASET_NAME"
WIKIPEDIA_SUBSET == "WIKIPEDIA_SUBSET"
WIKIPEDIA_SAMPLE_SIZE == "WIKIPEDIA_SAMPLE_SIZE"
AZURE_STORAGE_CONTAINER_NAME == "AZURE_STORAGE_CONTAINER_NAME"
AZURE_STORAGE_CONNECTION_STRING == "AZURE_STORAGE_CONNECTION_STRING"

\* the values each variable is given in the modelled runs (unset = not in the domain)
EnvValues ==
    [WIKIPEDIA_DATASET_NAME |-> {"other/dataset"},
     WIKIPEDIA_SUBSET |-> {"20231101.fr"},
     WIKIPEDIA_SAMPLE_SIZE |-> {<<"2">>},
     AZURE_STORAGE_CONTAINER_NAME |-> {"articles"},
     AZURE_STORAGE_CONNECTION_STRING |-> {"", "UseDevelopmentStorage=true"}]
EnvKeys == DOMAIN EnvValues

\* os.environ with variable k set to v / with k removed
WithEnv(e, k, v) == [x \in DOMAIN e \cup {k} |-> IF x = k THEN v ELSE e[x]]
WithoutEnv(e, k) == [x \in DOMAIN e \ {k} |-> e[x]]

DecimalDigits == <<"0", "1", "2", "3", "4", "5", "6", "7", "8", "9">>

RECURSIVE ParseInt(_)
\* int(text) for a text of decimal digits
ParseInt(text) ==
    IF text = <<>> THEN 0
    ELSE LET last == text[Len(text)]
             d == CHOOSE i \in 1..Len(DecimalDigits) : DecimalDigits[i] = last
         IN  ParseInt(SubSeq(text, 1, Len(text) - 1)) * Len(DecimalDigits) + (d - 1)

\* __init__: the three attributes read from the environment, with their defaults
Construct(e) ==
    [dataset_name |-> Get(e, WIKIPEDIA_DATASET_NAME, "wikimedia/wikipedia"),
     subset |-> Get(e, WIKIPEDIA_SUBSET, "20220301.en"),
     sample_size |-> ParseInt(Get(e, WIKIPEDIA_SAMPLE_SIZE, <<"1", "0", "0", "0">>))]

\* ------------------------------------------------------------ dataset source
\* record i of a source: the fields of the records the tests load
SourceRecord(i) ==
    LET digit == DecimalDigits[(i % Len(DecimalDigits)) + 1]
    IN  [id |-> Str(<<digit>>), url |-> Str(<<"w", "/", digit>>),
         title |-> Str(<<"A", " ", digit>>), text |-> Str(<<"x">>)]

\* load_dataset(path, name, split="train"): what the hub holds under that name
Source(path, name) ==
    IF path = "wikimedia/wikipedia"
    THEN [i \in 1..SourceLen |-> SourceRecord(i)]
    ELSE [i \in 1..(SourceLen - 1) |-> SourceRecord(SourceLen + i)]

\* range(n)
Range(n) == [k \in 1..n |-> k - 1]

\* Dataset.select(indices): the rows at the (0-based) indices, in their order;
\* an index past the end raises IndexError
SelectRaises(dataset, indices) == \E k \in 1..Len(indices) : indices[k] >= Len(dataset)
Select(dataset, indices) == [k \in 1..Len(indices) |-> dataset[indices[k] + 1]]

NoArg == [given |-> FALSE, value |-> 0]
Arg(x) == [given |-> TRUE, value |-> x]

\* faulty variant: "sample_size or self.sample_size", which also replaces a size of 0
EffectiveSampleSizeOr(c, sample_size) ==
    IF ~sample_size.given \/ sample_size.value = 0 THEN c.sample_size ELSE sample_size.value

\* "if sample_size is None: sample_size = self.sample_size"
EffectiveSampleSize(c, sample_size) ==
    IF ~sample_size.given THEN c.sample_size ELSE sample_size.value

\* faulty variant: the dataset name and subset re-read from the environment at each call
DatasetRequestFromEnviron(c, e) ==
    [path |-> Get(e, WIKIPEDIA_DATASET_NAME, "wikimedia/wikipedia"),
     name |-> Get(e, WIKIPEDIA_SUBSET, "20220301.en"), split |-> "train"]

\* the dataset request load_wikipedia_subset issues
DatasetRequest(c, e) == [path |-> c.dataset_name, name |-> c.subset, split |-> "train"]

\* the body of load_wikipedia_subset; every exception is logged and re-raised
LoadBody(c, e, sample_size, fault) ==
    LET n == EffectiveSampleSize(c, sample_size)
        request == DatasetRequest(c, e)
        dataset == Source(request.path, request.name)
        out(exc, ret) == [raised |-> exc # "none", exc |-> exc, requests |-> <<request>>,
                          size |-> n, ret |-> ret]
    IN  IF fault = "load_dataset" THEN out("ConnectionError", <<>>)
        ELSE IF SelectRaises(dataset, Range(n)) THEN out("IndexError", <<>>)
        ELSE out("none", Select(dataset, Range(n)))

\* ------------------------------------------------------------ metadata
\* a reading of the clock: datetime.datetime.utcnow()
Times ==
    {[year |-> 2024, month |-> 3, day |-> 9, hour |-> 7, minute |-> 5, second |-> 0,
      microsecond |-> 0],
     [year |-> 2025, month |-> 12, day |-> 31, hour |-> 23, minute |-> 59, second |-> 58,
      microsecond |-> 1200]}

RECURSIVE Digits(_, _)
\* n in decimal, zero-padded to the given width
Digits(n, width) ==
    IF width = 0 THEN <<>>
    ELSE Append(Digits(n \div Len(DecimalDigits), width - 1),
                DecimalDigits[(n % Len(DecimalDigits)) + 1])

\* datetime.isoformat(): YYYY-MM-DDTHH:MM:SS, then .ffffff unless microsecond is 0
IsoFormat(t) ==
    Digits(t.year, 4) \o <<"-">> \o Digits(t.month, 2) \o <<"-">> \o Digits(t.day, 2)
        \o <<"T">> \o Digits(t.hour, 2) \o <<":">> \o Digits(t.minute, 2) \o <<":">>
        \o Digits(t.second, 2)
        \o (IF t.microsecond = 0 THEN <<>> ELSE <<".">> \o Digits(t.microsecond, 6))

\* the dict literal of extract_metadata
MetadataBase(article, t) ==
    [id |-> Get(article, "id", Str(<<>>)), title |-> Get(article, "title", Str(<<>>)),
     url |-> Get(article, "url", Str(<<>>)), last_updated |-> Str(IsoFormat(t))]

\* faulty variant: "if article.get('categories')", which drops an empty list
HasCategoriesTruthy(article) ==
    "categories" \in DOMAIN article /\ article["categories"].v # <<>>

\* if "categories" in article: metadata["categories"] = article["categories"]
HasCategories(article) == "categories" \in DOMAIN article

\* extract_metadata(article) at clock reading t
Metadata(article, t) ==
    LET base == MetadataBase(article, t)
    IN  IF HasCategories(article)
        THEN [k \in DOMAIN base \cup {"categories"} |->
                IF k = "categories" THEN article["categories"] ELSE base[k]]
        ELSE base

\* the article as extract_metadata leaves it: it only reads its argument
ArticleAfterExtract(article) == article

\* ------------------------------------------------------------ blob storage
\* connection_string = os.environ.get("AZURE_STORAGE_CONNECTION_STRING"), read from the
\* environment e of the call (e0 is the environment __init__ saw); NoArg stands for None
ConnectionString(e, e0) ==
    IF AZURE_STORAGE_CONNECTION_STRING \in DOMAIN e
    THEN Arg(e[AZURE_STORAGE_CONNECTION_STRING]) ELSE NoArg

\* faulty variant: "connection_string is None", which lets the empty string through
NotNone(connection_string) == ~connection_string.given

\* "not connection_string": None or the empty string
Not(connection_string) == ~connection_string.given \/ connection_string.value = ""

\* "if container_name is None: container_name = os.environ.get(..., 'wikipedia-raw')"
ContainerName(e, e0, container_name) ==
    IF container_name.given THEN container_name.value
    ELSE Get(e, AZURE_STORAGE_CONTAINER_NAME, "wikipedia-raw")

\* faulty variant: an upload that adds the blob and keeps the one it should replace
UploadKeepOld(bl, container, name, data) ==
    bl \cup {[container |-> container, name |-> name, data |-> data]}

\* upload_blob(data=..., overwrite=True): the blob of that name is replaced
Upload(bl, container, name, data) ==
    {b \in bl : ~(b.container = container /\ b.name = name)}
        \cup {[container |-> container, name |-> name, data |-> data]}

\* faulty variant: the metadata fields of the article uploaded in place of the whole article
PayloadMetadataOnly(article) ==
    Dumps([k \in DOMAIN article \cap {"id", "title", "url", "categories"} |-> article[k]])

\* the data upload_blob is given
Payload(article) == Dumps(article)

\* one step of the try block: what was called, whether it returned, what it returned
Call(name, ok, result) == [call |-> name, ok |-> ok, result |-> result]

\* faulty variant: "except AzureError", which lets the other exceptions escape
CatchesAzureError(exc) == exc = "AzureError"

\* "except Exception": every exception the try block can raise is one
Catches(exc) == exc \in {"ValueError", "AzureError", "AttributeError", "TypeError"}

\* faulty variant: create_container called whatever the existence check reported
NeedsCreateAlways(exists) == TRUE

\* "if not container_client.exists()": create_container is called
NeedsCreate(exists) == ~exists

\* the try block of save_to_blob_storage, run against the store (conts, bl);
\* fault names the storage call that fails in this run, if it is reached
TryBlock(conts, bl, article, container, fault) ==
    LET connect == Call("from_connection_string", fault # "connect", TRUE)
        exists == Call("exists", fault # "exists", container \in conts)
        create == Call("create_container", fault # "create", TRUE)
        toCreate == IF NeedsCreate(exists.result) THEN <<create>> ELSE <<>>
        conts2 == IF NeedsCreate(exists.result) THEN conts \cup {container} ELSE conts
        name == Call("blob_name", TitleIsStr(article), TRUE)
        dumps == Call("json.dumps", Serializable(article), TRUE)
        upload == Call("upload_blob", fault # "upload",
                       [container |-> container, name |-> BlobName(article),
                        data |-> Payload(article)])
        out(exc, calls, cs, bs) == [exc |-> exc, calls |-> calls, containers |-> cs, blobs |-> bs]
    IN  IF ~connect.ok THEN out("ValueError", <<connect>>, conts, bl)
        ELSE IF ~exists.ok THEN out("AzureError", <<connect, exists>>, conts, bl)
        ELSE IF NeedsCreate(exists.result) /\ ~create.ok
             THEN out("AzureError", <<connect, exists, create>>, conts, bl)
        ELSE IF ~name.ok
             THEN out("AttributeError", <<connect, exists>> \o toCreate \o <<name>>, conts2, bl)
        ELSE IF ~dumps.ok
             THEN out("TypeError", <<connect, exists>> \o toCreate \o <<name, dumps>>, conts2, bl)
        ELSE IF ~upload.ok
             THEN out("AzureError", <<connect, exists>> \o toCreate \o <<name, dumps, upload>>,
                      conts2, bl)
        ELSE out("none", <<connect, exists>> \o toCreate \o <<name, dumps, upload>>, conts2,
                 Upload(bl, container, BlobName(article), Payload(article)))

\* save_to_blob_storage(article, container_name) in environment e, against the store
SaveOutcome(e, e0, conts, bl, article, container_name, fault) ==
    LET container == ContainerName(e, e0, container_name)
        credential == ConnectionString(e, e0)
        body == TryBlock(conts, bl, article, container, fault)
        \* what the upload of this call overwrote (reported for the record only)
        replaced == IF body.exc # "none" THEN {}
                    ELSE {b.data : b \in {x \in bl : x.container = container
                                                      /\ x.name = BlobName(article)}}
        call == [op |-> "save_to_blob_storage", article |-> article,
                 container_arg |-> container_name, container |-> container,
                 connection_string |-> credential]
    IN  IF Not(credential)
        THEN [containers |-> conts, blobs |-> bl,
              last |-> call @@ [raised |-> FALSE, ret |-> FALSE, calls |-> <<>>,
                                replaced |-> {}]]
        ELSE [containers |-> body.containers, blobs |-> body.blobs,
              last |-> call @@ [raised |-> ~Catches(body.exc) /\ body.exc # "none",
                                ret |-> body.exc = "none", calls |-> body.calls,
                                replaced |-> replaced]]

\* ------------------------------------------------------------ inputs
SampleArticle1 ==
    [id |-> Str(<<"1", "2", "3", "4", "5">>),
     title |-> Str(<<"S", "a", "m", "p", "l", "e", " ", "A", "r", "t", "i", "c", "l", "e",
                     " ", "1">>)]
EmptyArticle == [k \in {} |-> None]

\* articles that differ in id and title only
NameArticles ==
    LET ids == {Str(<<"7">>), Str(<<"7", "-">>)}
        titles == {Str(s) : s \in SeqsUpTo({"a", " ", "_"}, MaxTitleLen)}
    IN  {[id |-> i, title |-> t] : i \in ids, t \in titles}
            \cup {[id |-> i] : i \in ids} \cup {[title |-> t] : t \in titles}
            \cup {SampleArticle1, EmptyArticle}

\* articles that differ in the text, url and categories they carry
PayloadArticles ==
    LET texts == {Str(s) : s \in SeqsUpTo({"a", "\"", "\\", "\n"}, MaxTextLen)}
        base == [id |-> Str(<<"7">>), title |-> Str(<<"a", " ", "b">>)]
    IN  {base @@ [text |-> x] : x \in texts}
            \cup {base @@ [text |-> x, categories |-> List(<<x.v, <<"]", ",">> >>)] :
                       x \in texts}
            \cup {base @@ [url |-> x, categories |-> List(<<>>)] : x \in texts}

\* the records of the data model
Articles == NameArticles \cup PayloadArticles

\* dicts a caller can pass that are no records of the data model
OtherInputs ==
    {[id |-> Str(<<"7">>), title |-> None],
     [id |-> Str(<<"7">>), title |-> Str(<<"a">>), text |-> Obj]}

\* the articles the calls of a run are given
SaveInputs ==
    {[id |-> Str(<<"7">>), title |-> Str(<<"a", " ", "b">>), text |-> Str(<<"x">>)],
     [id |-> Str(<<"7">>), title |-> Str(<<"a", "_", "b">>), text |-> Str(<<"y">>),
      categories |-> List(<< <<"c">> >>)]}
        \cup OtherInputs

ContainerArgs == {NoArg, Arg("articles")}
Faults == {"none", "connect", "exists", "create", "upload"}
LoadFaults == {"none", "load_dataset"}
SampleSizes == {NoArg} \cup {Arg(n) : n \in 0..(SourceLen + 1)}

\* the environments an extractor is constructed in
InitEnvs ==
    {[k \in {} |-> ""],
     [WIKIPEDIA_DATASET_NAME |-> "other/dataset", WIKIPEDIA_SUBSET |-> "20231101.fr",
      WIKIPEDIA_SAMPLE_SIZE |-> <<"2">>, AZURE_STORAGE_CONTAINER_NAME |-> "articles",
      AZURE_STORAGE_CONNECTION_STRING |-> "UseDevelopmentStorage=true"]}

\* the variables whose value in e is not the one of e0
Changed(e, e0) ==
    {k \in DOMAIN e \cup DOMAIN e0 :
        ~(k \in DOMAIN e /\ k \in DOMAIN e0) \/ ~(e[k] = e0[k])}

\* ------------------------------------------------------------ state
VARIABLES
    env,        \* os.environ
    env0,       \* os.environ as it was when __init__ ran
    cfg,        \* self.dataset_name, self.subset, self.sample_size
    containers, \* the containers of the storage account
    blobs,      \* the blobs of the storage account: [container, name, data]
    last        \* the last call: its arguments, the calls it made, its outcome

vars == <<env, env0, cfg, containers, blobs, last>>

Init ==
    /\ env \in InitEnvs
    /\ env0 = env
    /\ cfg = Construct(env)
    /\ containers = {}
    /\ blobs = {}
    /\ last = [op |-> "__init__"]

\* the environment changes under the extractor (the tests' patch.dict ends)
SetEnv(k, v) ==
    /\ env' = WithEnv(env, k, v)
    /\ env' # env
    /\ Cardinality(Changed(env', env0)) <= MaxEnvChanges
    /\ last' = [op |-> "environ"]
    /\ UNCHANGED <<env0, cfg, containers, blobs>>

UnsetEnv(k) ==
    /\ k \in DOMAIN env
    /\ env' = WithoutEnv(env, k)
    /\ Cardinality(Changed(env', env0)) <= MaxEnvChanges
    /\ last' = [op |-> "environ"]
    /\ UNCHANGED <<env0, cfg, containers, blobs>>

LoadWikipediaSubset(sample_size, fault) ==
    /\ last' = [op |-> "load_wikipedia_subset", sample_size |-> sample_size]
                   @@ LoadBody(cfg, env, sample_size, fault)
    /\ UNCHANGED <<env, env0, cfg, containers, blobs>>

ExtractMetadata(article, t) ==
    /\ last' = [op |-> "extract_metadata", article |-> article, raised |-> FALSE,
                ret |-> Metadata(article, t), after |-> ArticleAfterExtract(article)]
    /\ UNCHANGED <<env, env0, cfg, containers, blobs>>

SaveToBlobStorage(article, container_name, fault) ==
    LET outcome == SaveOutcome(env, env0, containers, blobs, article, container_name, fault)
    IN  /\ containers' = outcome.containers
        /\ blobs' = outcome.blobs
        /\ last' = outcome.last
        /\ UNCHANGED <<env, env0, cfg>>

Next ==
    \/ \E k \in EnvKeys : \E v \in EnvValues[k] : SetEnv(k, v)
    \/ \E k \in EnvKeys : UnsetEnv(k)
    \/ \E n \in SampleSizes, f \in LoadFaults : LoadWikipediaSubset(n, f)
    \/ \E a \in SaveInputs, t \in Times : ExtractMetadata(a, t)
    \/ \E a \in SaveInputs, c \in ContainerArgs, f \in Faults : SaveToBlobStorage(a, c, f)

Spec == Init /\ [][Next]_vars

\* one extractor, constructed with a credential, applied to one record of the data model
InitArticle ==
    /\ env = [AZURE_STORAGE_CONNECTION_STRING |-> "UseDevelopmentStorage=true"]
    /\ env0 = env
    /\ cfg = Construct(env)
    /\ containers = {}
    /\ blobs = {}
    /\ \E a \in Articles : last = [op |-> "__init__", article |-> a]

NextArticle ==
    \/ \E t \in Times : ExtractMetadata(last.article, t)
    \/ \E f \in Faults : SaveToBlobStorage(last.article, NoArg, f)

SpecArticle == InitArticle /\ [][NextArticle]_vars

\* ------------------------------------------------------------ properties
IsSave == last.op = "save_to_blob_storage"
IsLoad == last.op = "load_wikipedia_subset"
IsExtract == last.op = "extract_metadata"

StorageCalls == {"from_connection_string", "exists", "create_container", "upload_blob"}

\* the positions in the call log of the last call at which the named call was made
Made(name) == {i \in 1..Len(last.calls) : last.calls[i].call = name}

\* the upload requests the last call issued
Uploads == {last.calls[i].result : i \in Made("upload_blob")}

\* no credential in environment e: the connection string is absent or empty
CredentialMissing(e) ==
    \/ "AZURE_STORAGE_CONNECTION_STRING" \notin DOMAIN e
    \/ e["AZURE_STORAGE_CONNECTION_STRING"] = ""

C2_NeverRaises ==
    IsSave =>
        /\ last.raised = FALSE
        /\ last.ret \in BOOLEAN
        /\ last.ret = TRUE <=>
              /\ \A i \in 1..Len(last.calls) : last.calls[i].ok
              /\ \A name \in {"from_connection_string", "exists", "blob_name", "json.dumps",
                              "upload_blob"} : Made(name) # {}
        /\ (\E i \in 1..Len(last.calls) : ~last.calls[i].ok) => last.ret = FALSE

\* serialization failed after the container had been created, and the call returned false
C2_Witness ==
    /\ IsSave
    /\ last.ret = FALSE
    /\ \E i \in Made("json.dumps") : ~last.calls[i].ok
    /\ \E i \in Made("create_container") : last.calls[i].ok

\* what the environment of construction configures
ConfiguredAt(e) ==
    [path |-> IF "WIKIPEDIA_DATASET_NAME" \in DOMAIN e THEN e["WIKIPEDIA_DATASET_NAME"]
              ELSE "wikimedia/wikipedia",
     name |-> IF "WIKIPEDIA_SUBSET" \in DOMAIN e THEN e["WIKIPEDIA_SUBSET"]
              ELSE "20220301.en",
     size |-> IF "WIKIPEDIA_SAMPLE_SIZE" \in DOMAIN e THEN ParseInt(e["WIKIPEDIA_SAMPLE_SIZE"])
              ELSE 1000,
     container |-> IF "AZURE_STORAGE_CONTAINER_NAME" \in DOMAIN e
                   THEN e["AZURE_STORAGE_CONTAINER_NAME"] ELSE "wikipedia-raw",
     credential |-> IF "AZURE_STORAGE_CONNECTION_STRING" \in DOMAIN e
                    THEN [given |-> TRUE, value |-> e["AZURE_STORAGE_CONNECTION_STRING"]]
                    ELSE [given |-> FALSE, value |-> 0]]

\* a load call uses the dataset name, subset and sample size of environment e
LoadUses(e) ==
    IsLoad =>
        /\ last.requests = <<[path |-> ConfiguredAt(e).path, name |-> ConfiguredAt(e).name,
                              split |-> "train"]>>
        /\ ~last.sample_size.given => last.size = ConfiguredAt(e).size

\* a save call uses the connection string and the default container of environment e
SaveUses(e) ==
    IsSave =>
        /\ last.connection_string = ConfiguredAt(e).credential
        /\ last.calls = <<>> <=> CredentialMissing(e)
        /\ ~last.container_arg.given => last.container = ConfiguredAt(e).container

\* C3 as claimed: every call uses the five values of the environment of construction,
\* whatever the environment has become since.
C3_ReadOnceAtConstruction == LoadUses(env0) /\ SaveUses(env0)

\* C3 as amended: the dataset name, subset and sample size are those of the environment
\* of construction and never change; the container name and the connection string are
\* those of the environment at the time of the save_article call.
C3_LoadConfigReadOnce ==
    /\ cfg = [dataset_name |-> ConfiguredAt(env0).path, subset |-> ConfiguredAt(env0).name,
              sample_size |-> ConfiguredAt(env0).size]
    /\ LoadUses(env0)
    /\ SaveUses(env)

\* a load with the default size, made after the sample size or the dataset name changed
C3_Witness ==
    /\ IsLoad
    /\ ~last.sample_size.given
    /\ Changed(env, env0) \cap {"WIKIPEDIA_DATASET_NAME", "WIKIPEDIA_SAMPLE_SIZE"} # {}

\* the blobs of bl stored in container c under name n
Named(bl, c, n) == {b \in bl : b.container = c /\ b.name = n}

\* C4: a container holds at most one blob per name; a successful save stores its payload
\* under its blob name, replacing what was there, so that saving under a name that
\* exists does not add a blob; and no blob changes in any other way, so the content under
\* a name is the payload of the last successful save that produced the name.
C4_OverwriteByName ==
    [][LET saved == last'.op = "save_to_blob_storage" /\ last'.ret = TRUE
           n == Len(last'.calls)
           up == last'.calls[n].result
       IN  /\ \A b1, b2 \in blobs' :
                 (b1.container = b2.container /\ b1.name = b2.name) => b1 = b2
           /\ saved =>
                 /\ last'.calls[n].call = "upload_blob"
                 /\ up.container = last'.container
                 /\ Named(blobs', up.container, up.name) = {up}
                 /\ blobs' \ {up} = blobs \ Named(blobs, up.container, up.name)
                 /\ Named(blobs, up.container, up.name) # {}
                       => Cardinality(blobs') = Cardinality(blobs)
           /\ ~saved => blobs' = blobs]_vars

\* a successful save replaced different content stored under its blob name
C4_Witness ==
    /\ IsSave
    /\ last.ret = TRUE
    /\ \E d \in last.replaced : \A u \in Uploads : d # u.data
    /\ Cardinality(blobs) > 1

\* the characters of field k of the article, or the placeholder when it has no field k
FieldOr(article, k, placeholder) ==
    IF k \in DOMAIN article THEN article[k].v ELSE placeholder

\* name is "<id>-<title, each space an underscore>.json"
HasNameFormat(name, id, title) ==
    /\ Len(name) = Len(id) + 1 + Len(title) + 5
    /\ \A i \in 1..Len(id) : name[i] = id[i]
    /\ name[Len(id) + 1] = "-"
    /\ \A i \in 1..Len(title) :
          name[Len(id) + 1 + i] = IF title[i] = " " THEN "_" ELSE title[i]
    /\ SubSeq(name, Len(name) - 4, Len(name)) = <<".", "j", "s", "o", "n">>

\* C5: every upload of a save names its blob "<id>-<title with each space replaced by an
\* underscore>.json", with "unknown" for an absent id and "untitled" for an absent
\* title; {id: "12345", title: "Sample Article 1"} gives "12345-Sample_Article_1.json"
\* and {} gives "unknown-untitled.json".
C5_BlobNameFormat ==
    IsSave =>
        \A u \in Uploads :
            /\ HasNameFormat(u.name,
                   FieldOr(last.article, "id", <<"u", "n", "k", "n", "o", "w", "n">>),
                   FieldOr(last.article, "title", <<"u", "n", "t", "i", "t", "l", "e", "d">>))
            /\ last.article = SampleArticle1 =>
                  u.name = <<"1", "2", "3", "4", "5", "-", "S", "a", "m", "p", "l", "e", "_",
                             "A", "r", "t", "i", "c", "l", "e", "_", "1", ".", "j", "s", "o",
                             "n">>
            /\ last.article = EmptyArticle =>
                  u.name = <<"u", "n", "k", "n", "o", "w", "n", "-", "u", "n", "t", "i", "t",
                             "l", "e", "d", ".", "j", "s", "o", "n">>

\* an article whose title holds two spaces was uploaded
C5_Witness ==
    /\ IsSave
    /\ last.ret = TRUE
    /\ "title" \in DOMAIN last.article
    /\ Cardinality({i \in 1..Len(last.article.title.v) : last.article.title.v[i] = " "}) >= 2

\* a record of the data model: string fields, categories a sequence of strings
IsArticleRecord(article) ==
    \A k \in DOMAIN article :
        IF k = "categories" THEN article[k].t = "list" ELSE article[k].t = "str"

\* C6: a save of a record with a credential configured and every storage call of it
\* succeeding returns true, issues exactly one upload, and the uploaded data parses
\* back to the article that was passed in, every field of it.
C6_PayloadRoundTrip ==
    (/\ IsSave
     /\ IsArticleRecord(last.article)
     /\ ~CredentialMissing(env)
     /\ \A i \in 1..Len(last.calls) :
           last.calls[i].call \in StorageCalls => last.calls[i].ok)
        => /\ last.ret = TRUE
           /\ Cardinality(Made("upload_blob")) = 1
           /\ \A u \in Uploads : Loads(u.data) = last.article
           /\ \A b \in Named(blobs, last.container, BlobName(last.article)) :
                 Loads(b.data) = last.article

\* an article whose text holds a quote or a backslash, and categories, was uploaded
C6_Witness ==
    /\ IsSave
    /\ last.ret = TRUE
    /\ "text" \in DOMAIN last.article
    /\ "categories" \in DOMAIN last.article
    /\ \E i \in 1..Len(last.article.text.v) : last.article.text.v[i] \in {"\"", "\\"}

C8_MetadataFields ==
    IsExtract =>
        /\ ~last.raised
        /\ DOMAIN last.ret =
              {"id", "title", "url", "last_updated"}
                  \cup (IF "categories" \in DOMAIN last.article THEN {"categories"} ELSE {})
        /\ \A k \in {"id", "title", "url"} :
              last.ret[k] = IF k \in DOMAIN last.article THEN last.article[k]
                            ELSE [t |-> "str", v |-> <<>>]
        /\ "categories" \in DOMAIN last.article =>
              last.ret["categories"] = last.article["categories"]
        /\ last.after = last.article

\* metadata was extracted from an article with categories and without a url
C8_Witness ==
    /\ IsExtract
    /\ "categories" \in DOMAIN last.article
    /\ "url" \notin DOMAIN last.article
    /\ "categories" \in DOMAIN last.ret

\* the storage calls of the last call, in the order they were made
StorageLog == SelectSeq(last.calls, LAMBDA c : c.call \in StorageCalls)

\* C9: the storage calls of a save are made in the order connect, existence check,
\* creation, upload; creation is called only after an existence check that reported
\* the container missing; an upload is issued only after the container was found or
\* created in this call; a failed check or creation means no upload and a false
\* return; a container created before a failed upload stays created.
C9_StorageCallOrder ==
    IsSave =>
        LET log == StorageLog
            at(name) == {i \in 1..Len(log) : log[i].call = name}
            rank == [from_connection_string |-> 1, exists |-> 2, create_container |-> 3,
                     upload_blob |-> 4]
        IN  /\ \A i, j \in 1..Len(log) : i < j => rank[log[i].call] < rank[log[j].call]
            /\ log # <<>> => log[1].call = "from_connection_string"
            /\ \A i \in at("create_container") :
                  \E j \in at("exists") : j < i /\ log[j].ok /\ log[j].result = FALSE
            /\ \A i \in at("upload_blob") :
                  /\ \E j \in at("exists") : j < i /\ log[j].ok
                  /\ \/ \E j \in at("exists") : log[j].result = TRUE
                     \/ \E j \in at("create_container") : j < i /\ log[j].ok
            /\ (\E i \in at("exists") \cup at("create_container") : ~log[i].ok) =>
                  at("upload_blob") = {} /\ last.ret = FALSE
            /\ (\E i \in at("create_container") : log[i].ok) => last.container \in containers

\* the upload failed after the container had been created, and the container is there
C9_Witness ==
    /\ IsSave
    /\ \E i \in Made("create_container") : last.calls[i].ok
    /\ \E i \in Made("upload_blob") : ~last.calls[i].ok
    /\ last.container \in containers
    /\ last.ret = FALSE

\* the (id, title) of an article, an absent field told from every value
IdTitle(article) ==
    <<Get(article, "id", [t |-> "absent", v |-> <<>>]),
      Get(article, "title", [t |-> "absent", v |-> <<>>])>>

\* C10: blob names are unique per article: a successful save replaces only content
\* that was saved from an article with the same (id, title).
C10_UniqueBlobNames ==
    (IsSave /\ last.ret = TRUE) =>
        \A d \in last.replaced : IdTitle(Loads(d)) = IdTitle(last.article)

====
